---- MODULE Spec2Model ----
(***************************************************************************)
(* Sharded concurrent maps of antoniomo/shardedmap: StrMap, Uint64Map and  *)
(* UUIDMap.  A map is a fixed array of shards; a shard is a Go map guarded *)
(* by a sync.RWMutex.  Goroutines call Store, Load, LoadOrStore, Delete    *)
(* and Range; every statement that touches a lock or a shard's map is one  *)
(* step of the calling goroutine.                                          *)
(***************************************************************************)
EXTENDS Integers, Sequences, FiniteSets, TLC

\* ------------------------------------------------------------------ bounds
NumProcs == 2
MaxKey == 2
MaxVal == 2
MaxShards == 2
MaxCalls == 3
MaxRequest == 3
MaxNonPositive == 1
MaxRouteKey == 8
MaxVisitorCalls == 1

Procs == 1..NumProcs

\* a goroutine runs its own calls in frame p, and the calls the visitor of its Range
\* makes in frame VisitorFrame(p)
Frames == 1..(2 * NumProcs)

VisitorFrame(p) == p + NumProcs
Keys == 0..(MaxKey - 1)
Values == 1..MaxVal
Nil == 0
NoProc == 0

\* The implementations found in the source tree.  The two files that define
\* StrMap (and Uint64Map) differ in Store and in the routing function.
Impls == {"StrMap", "Uint64Map", "UUIDMap", "Uint64MapB", "StrMapB"}
StoreIfAbsentImpls == {"StrMap", "Uint64Map"}

Ops == {"Store", "Load", "LoadOrStore", "Delete", "Range"}
Mutators == {"Store", "LoadOrStore", "Delete"}

VARIABLES
    impl,        \* which map type was constructed
    requested,   \* the shardCount argument the constructor was called with
    shardCount,  \* sm.shardCount
    values,      \* values[s]: the Go map of shard s
    w,           \* w[s]: goroutine that owns the writer side of shard s's RWMutex
    readers,     \* readers[s]: goroutines holding shard s's RWMutex in read mode
    pc, op, key, arg,   \* per goroutine: position, current/last call and its arguments
    actual, loaded,     \* per goroutine: the named results (value, ok)
    ri, seen, visited, stopped,  \* per goroutine: Range loop state and the visitor's log
    snap,        \* history: snap[p] = the map of the shard p's Range iterates, as it was when p locked it
    calls,       \* number of calls started by the goroutines
    vcalls,      \* number of calls started by visitors
    abs,         \* history: the ordinary map obtained by applying each call atomically
    settled,     \* history: settled[k] = v after Store(k, v) returned, until a later Store/Delete(k) starts
    deleted,     \* history: deleted[k] after Delete(k) returned, until a later Store/LoadOrStore(k) starts
    race,        \* history: per key, the LoadOrStore results since the key was last absent and idle
    overlap      \* history: overlap[p] = the mutating calls that ran during p's current call

vars == <<impl, requested, shardCount, values, w, readers, pc, op, key, arg, actual, loaded,
          ri, seen, visited, stopped, snap, calls, vcalls, abs, settled, deleted, race, overlap>>

mapVars == <<impl, requested, shardCount, values>>
lockVars == <<w, readers>>
rangeVars == <<ri, seen, visited, stopped, snap>>
callVars == <<calls, vcalls>>

\* ------------------------------------------------------------- Go maps
EmptyMap == [k \in {} |-> Nil]

\* v, ok := m[k]
MapGet(m, k) == IF k \in DOMAIN m THEN <<m[k], TRUE>> ELSE <<Nil, FALSE>>

\* m[k] = v
MapPut(m, k, v) == [x \in (DOMAIN m) \cup {k} |-> IF x = k THEN v ELSE m[x]]

\* a delete that removes nothing
MapDelete_Noop(m, k) == m

\* delete(m, k)
\* a delete that empties the map
MapDelete_Clear(m, k) == EmptyMap

MapDelete(m, k) == [x \in (DOMAIN m) \ {k} |-> m[x]]

\* ------------------------------------------------------------- routing
RECURSIVE BitAnd(_, _)
BitAnd(a, b) ==
    IF a = 0 \/ b = 0 THEN 0
    ELSE (a % 2) * (b % 2) + 2 * BitAnd(a \div 2, b \div 2)

\* memHash / memHashString: an opaque deterministic hash of the key bytes.
memHash(k) == 3 * k + 1

\* _getShard: index of the shard of key k
\* a mask taken from the number of shards itself
getShard_MaskOff(im, n, k) == BitAnd(memHash(k), n)

\* every map type reducing the hash of the key modulo the number of shards
getShard_Hashed(im, n, k) == memHash(k) % n

getShard(im, n, k) ==
    CASE im \in {"StrMap"} -> memHash(k) % n
      [] im \in {"Uint64Map", "Uint64MapB"} -> k % n
      [] im \in {"UUIDMap", "StrMapB"} -> BitAnd(memHash(k), n - 1)

\* routing that also depends on how many calls were made
ShardOf_Drifting(k) == getShard(impl, shardCount, k + calls)

ShardOf(k) == getShard(impl, shardCount, k)

Shards == 0..(shardCount - 1)

\* ------------------------------------------------------------- sync.RWMutex
\* RLock blocks while a writer owns or waits for the mutex.
CanRLock(s) == w[s] = NoProc
\* Lock first takes the writer side, then waits for the readers to leave.
CanLockW(s) == w[s] = NoProc
ReadersGone(s) == readers[s] = {}


\* ------------------------------------------------------------- history
\* The ordinary (sequential) map: Nil stands for an absent key.
SeqApply(m, o, k, v) ==
    CASE o = "Store" -> [m EXCEPT ![k] = v]
      [] o = "Delete" -> [m EXCEPT ![k] = Nil]
      [] o = "LoadOrStore" -> IF m[k] = Nil THEN [m EXCEPT ![k] = v] ELSE m
      [] OTHER -> m

SeqResult(m, o, k, v) ==
    CASE o = "Load" -> <<m[k], m[k] # Nil>>
      [] o = "LoadOrStore" -> IF m[k] = Nil THEN <<v, FALSE>> ELSE <<m[k], TRUE>>
      [] OTHER -> <<Nil, FALSE>>

Running(q) == pc[q] # "idle"
RunningOn(q, k) == Running(q) /\ op[q] # "Range" /\ key[q] = k

NewRace == [active |-> TRUE, nFalse |-> 0, nTrue |-> 0, vals |-> {}, win |-> Nil]

\* bookkeeping when p starts the call o(k, v)
CallHistory(p, o, k, v) ==
    /\ settled' = IF o \in {"Store", "Delete"} THEN [settled EXCEPT ![k] = Nil] ELSE settled
    /\ deleted' = IF o \in {"Store", "LoadOrStore"} THEN [deleted EXCEPT ![k] = FALSE] ELSE deleted
    /\ race' = IF o \in {"Store", "Delete"} THEN [race EXCEPT ![k].active = FALSE] ELSE race
    /\ overlap' = [q \in Frames |->
          IF q = p
          THEN IF o \in {"Store", "Delete", "Range"}
               THEN {op[r] : r \in {x \in Frames \ {p} : /\ Running(x)
                                                       /\ op[x] \in Mutators
                                                       /\ (o = "Range" \/ key[x] = k)}}
               ELSE {}
          ELSE IF /\ o \in Mutators
                  /\ Running(q)
                  /\ \/ op[q] = "Range"
                     \/ op[q] \in {"Store", "Delete"} /\ key[q] = k
               THEN overlap[q] \cup {o}
               ELSE overlap[q]]

\* p's call returns: its frame (arguments, results, loop state) is gone, and the
\* history is brought up to date (the shard maps do not change in that step)
Return(p) ==
    LET k == key[p]
        o == op[p]
        quiet == \A q \in Frames \ {p} : ~RunningOn(q, k)
        r0 == race[k]
        r1 == IF o = "LoadOrStore" /\ r0.active
              THEN [r0 EXCEPT !.nFalse = IF loaded[p] THEN @ ELSE @ + 1,
                              !.nTrue = IF loaded[p] THEN @ + 1 ELSE @,
                              !.vals = @ \cup {actual[p]},
                              !.win = IF loaded[p] THEN @ ELSE arg[p]]
              ELSE r0
        r2 == IF ~r1.active /\ quiet /\ ~MapGet(values[ShardOf(k)], k)[2]
              THEN NewRace ELSE r1
    IN /\ pc' = [pc EXCEPT ![p] = "idle"]
       /\ op' = [op EXCEPT ![p] = "none"]
       /\ key' = [key EXCEPT ![p] = 0]
       /\ arg' = [arg EXCEPT ![p] = Nil]
       /\ actual' = [actual EXCEPT ![p] = Nil]
       /\ loaded' = [loaded EXCEPT ![p] = FALSE]
       /\ ri' = [ri EXCEPT ![p] = 0]
       /\ seen' = [seen EXCEPT ![p] = {}]
       /\ visited' = [visited EXCEPT ![p] = <<>>]
       /\ stopped' = [stopped EXCEPT ![p] = FALSE]
       /\ snap' = [snap EXCEPT ![p] = EmptyMap]
       /\ overlap' = [overlap EXCEPT ![p] = {}]
       /\ settled' = IF o = "Store" /\ overlap[p] \cap {"Store", "Delete"} = {}
                     THEN [settled EXCEPT ![k] = arg[p]] ELSE settled
       /\ deleted' = IF o = "Delete" /\ overlap[p] \cap {"Store", "LoadOrStore"} = {}
                     THEN [deleted EXCEPT ![k] = TRUE] ELSE deleted
       /\ race' = IF o = "Range" THEN race ELSE [race EXCEPT ![k] = r2]

\* the call of p takes effect atomically in this step
Linearize(p) == abs' = SeqApply(abs, op[p], key[p], arg[p])

histVars == <<abs, settled, deleted, race, overlap>>

\* ------------------------------------------------------------- construction
\* the number of shards of a map when the constructor gets no positive count
defaultShards == 32

\* a constructor that takes the default for negative counts only
NewShardCount_ZeroKept(n) == IF n < 0 THEN defaultShards ELSE n

\* the number of shards NewStrMap / NewUint64Map / NewUUIDMap(n) makes
NewShardCount(n) == IF n <= 0 THEN defaultShards ELSE n

\* NewStrMap / NewUint64Map / NewUUIDMap(n) for some n of args; no call has started
NewMap(args) ==
    /\ impl \in Impls
    /\ requested \in args
    /\ shardCount = NewShardCount(requested)
    /\ values = [s \in 0..(shardCount - 1) |-> EmptyMap]
    /\ w = [s \in 0..(shardCount - 1) |-> NoProc]
    /\ readers = [s \in 0..(shardCount - 1) |-> {}]
    /\ pc = [p \in Frames |-> "idle"]
    /\ op = [p \in Frames |-> "none"]
    /\ key = [p \in Frames |-> 0]
    /\ arg = [p \in Frames |-> Nil]
    /\ actual = [p \in Frames |-> Nil]
    /\ loaded = [p \in Frames |-> FALSE]
    /\ ri = [p \in Frames |-> 0]
    /\ seen = [p \in Frames |-> {}]
    /\ visited = [p \in Frames |-> <<>>]
    /\ stopped = [p \in Frames |-> FALSE]
    /\ snap = [p \in Frames |-> EmptyMap]
    /\ calls = 0
    /\ vcalls = 0
    /\ abs = [k \in Keys |-> Nil]
    /\ settled = [k \in Keys |-> Nil]
    /\ deleted = [k \in Keys |-> FALSE]
    /\ race = [k \in Keys |-> NewRace]
    /\ overlap = [p \in Frames |-> {}]

\* the maps the calls are explored on: a positive number of shards
Init == NewMap(1..MaxShards)

\* every kind of argument of the constructor
CtorInit == NewMap((0 - MaxNonPositive)..MaxRequest)

\* ------------------------------------------------------------- calls
FirstLabel(o) ==
    CASE o = "Store" -> IF impl \in StoreIfAbsentImpls THEN "si_rlock" ELSE "st_lock"
      [] o = "Load" -> "ld_rlock"
      [] o = "LoadOrStore" -> "ls_rlock"
      [] o = "Delete" -> "dl_lock"
      [] o = "Range" -> "rg_next"

\* a goroutine calls a method of the map
Call(p) ==
    /\ pc[p] = "idle"
    /\ calls < MaxCalls
    /\ \E o \in Ops, k0 \in Keys, v0 \in Values :
         LET k == IF o = "Range" THEN 0 ELSE k0
             v == IF o \in {"Store", "LoadOrStore"} THEN v0 ELSE Nil
         IN /\ pc' = [pc EXCEPT ![p] = FirstLabel(o)]
            /\ op' = [op EXCEPT ![p] = o]
            /\ key' = [key EXCEPT ![p] = k]
            /\ arg' = [arg EXCEPT ![p] = v]
            /\ CallHistory(p, o, k, v)
    /\ calls' = calls + 1
    /\ UNCHANGED <<mapVars, lockVars, actual, loaded, rangeVars, vcalls, abs>>

\* ------------------------------------------------------------- lock steps
RLock(p, s) ==
    /\ CanRLock(s)
    /\ readers' = [readers EXCEPT ![s] = @ \cup {p}]
    /\ w' = w

\* an RUnlock that was forgotten
RUnlock_Leak(p, s) == readers' = readers /\ w' = w

RUnlock(p, s) ==
    /\ readers' = [readers EXCEPT ![s] = @ \ {p}]
    /\ w' = w

\* first half of Lock: take the writer side, new readers are held off from now on
LockBegin(p, s) ==
    /\ CanLockW(s)
    /\ w' = [w EXCEPT ![s] = p]
    /\ readers' = readers

\* an Unlock that was forgotten
Unlock_Leak(p, s) == readers' = readers /\ w' = w

Unlock(p, s) ==
    /\ w' = [w EXCEPT ![s] = NoProc]
    /\ readers' = readers

Goto(p, l) == pc' = [pc EXCEPT ![p] = l]

\* ------------------------------------------------------------- Store
\* Store that takes the exclusive lock and writes
UUIDMap_Store(p) ==
    LET s == ShardOf(key[p]) IN
    \/ /\ pc[p] = "st_lock"
       /\ LockBegin(p, s)
       /\ Goto(p, "st_wait")
       /\ UNCHANGED <<mapVars, op, key, arg, actual, loaded, rangeVars, callVars, histVars>>
    \/ /\ pc[p] = "st_wait"
       /\ ReadersGone(s)
       /\ Goto(p, "st_write")
       /\ UNCHANGED <<mapVars, lockVars, op, key, arg, actual, loaded, rangeVars, callVars, histVars>>
    \/ /\ pc[p] = "st_write"
       /\ values' = [values EXCEPT ![s] = MapPut(@, key[p], arg[p])]
       /\ Linearize(p)
       /\ Goto(p, "st_unlock")
       /\ UNCHANGED <<impl, requested, shardCount, lockVars, op, key, arg, actual, loaded, rangeVars,
                      callVars, settled, deleted, race, overlap>>
    \/ /\ pc[p] = "st_unlock"
       /\ Unlock(p, s)
       /\ Return(p)
       /\ UNCHANGED <<mapVars, callVars, abs>>

\* Store that probes under the shared lock and writes only an absent key
StrMap_Store(p) ==
    LET s == ShardOf(key[p])
        ok == MapGet(values[s], key[p])[2]
    IN
    \/ /\ pc[p] = "si_rlock"
       /\ RLock(p, s)
       /\ Goto(p, "si_probe")
       /\ UNCHANGED <<mapVars, op, key, arg, actual, loaded, rangeVars, callVars, histVars>>
    \/ /\ pc[p] = "si_probe"
       /\ IF ok
          THEN Goto(p, "si_found") /\ Linearize(p)
          ELSE Goto(p, "si_runlock") /\ abs' = abs
       /\ UNCHANGED <<mapVars, lockVars, op, key, arg, actual, loaded, rangeVars, callVars,
                      settled, deleted, race, overlap>>
    \/ /\ pc[p] = "si_found"
       /\ RUnlock(p, s)
       /\ Return(p)
       /\ UNCHANGED <<mapVars, callVars, abs>>
    \/ /\ pc[p] = "si_runlock"
       /\ RUnlock(p, s)
       /\ Goto(p, "si_lock")
       /\ UNCHANGED <<mapVars, op, key, arg, actual, loaded, rangeVars, callVars, histVars>>
    \/ /\ pc[p] = "si_lock"
       /\ LockBegin(p, s)
       /\ Goto(p, "si_wait")
       /\ UNCHANGED <<mapVars, op, key, arg, actual, loaded, rangeVars, callVars, histVars>>
    \/ /\ pc[p] = "si_wait"
       /\ ReadersGone(s)
       /\ Goto(p, "si_check")
       /\ UNCHANGED <<mapVars, lockVars, op, key, arg, actual, loaded, rangeVars, callVars, histVars>>
    \/ /\ pc[p] = "si_check"
       /\ values' = IF ok THEN values ELSE [values EXCEPT ![s] = MapPut(@, key[p], arg[p])]
       /\ Linearize(p)
       /\ Goto(p, "si_unlock")
       /\ UNCHANGED <<impl, requested, shardCount, lockVars, op, key, arg, actual, loaded, rangeVars,
                      callVars, settled, deleted, race, overlap>>
    \/ /\ pc[p] = "si_unlock"
       /\ Unlock(p, s)
       /\ Return(p)
       /\ UNCHANGED <<mapVars, callVars, abs>>

\* ------------------------------------------------------------- Load
\* a Load that reports every key as found
LoadResult_AlwaysFound(m, k) == <<MapGet(m, k)[1], TRUE>>

\* value, ok := shard.values[key]; return value, ok
LoadResult(m, k) == MapGet(m, k)

Load(p) ==
    LET s == ShardOf(key[p])
        r == LoadResult(values[s], key[p])
    IN
    \/ /\ pc[p] = "ld_rlock"
       /\ RLock(p, s)
       /\ Goto(p, "ld_read")
       /\ UNCHANGED <<mapVars, op, key, arg, actual, loaded, rangeVars, callVars, histVars>>
    \/ /\ pc[p] = "ld_read"
       /\ actual' = [actual EXCEPT ![p] = r[1]]
       /\ loaded' = [loaded EXCEPT ![p] = r[2]]
       /\ Goto(p, "ld_runlock")
       /\ UNCHANGED <<mapVars, lockVars, op, key, arg, rangeVars, callVars, histVars>>
    \/ /\ pc[p] = "ld_runlock"
       /\ RUnlock(p, s)
       /\ Return(p)
       /\ UNCHANGED <<mapVars, callVars, abs>>

\* ------------------------------------------------------------- LoadOrStore
\* the value returned by the inserting path: `return value, loaded` in StrMap and
\* Uint64Map, `return actual, loaded` in UUIDMap (actual holds the failed lookup)
InsertResult(im, looked, value) ==
    IF im = "UUIDMap" THEN looked ELSE value

\* a LoadOrStore that trusts the probe and does not look again
LosRecheck_Skipped(m, k) == <<Nil, FALSE>>

\* the second lookup, made under the exclusive lock
LosRecheck(m, k) == MapGet(m, k)

\* a LoadOrStore that writes whatever the second lookup found
LosInsert_Always(m, k, v, found) == MapPut(m, k, v)

\* the shard's map after the second lookup: written only when the key was not found
LosInsert(m, k, v, found) == IF found THEN m ELSE MapPut(m, k, v)

\* a LoadOrStore that keeps the shared lock and goes on to write
LosAfterMiss_NoUpgrade == "ls_check"

\* where LoadOrStore continues when the probe did not find the key: it releases the
\* shared lock, then takes the exclusive one
LosAfterMiss == "ls_runlock"

LoadOrStore(p) ==
    LET s == ShardOf(key[p])
        r == MapGet(values[s], key[p])
        r2 == LosRecheck(values[s], key[p])
    IN
    \/ /\ pc[p] = "ls_rlock"
       /\ RLock(p, s)
       /\ Goto(p, "ls_probe")
       /\ UNCHANGED <<mapVars, op, key, arg, actual, loaded, rangeVars, callVars, histVars>>
    \/ /\ pc[p] = "ls_probe"
       /\ actual' = [actual EXCEPT ![p] = r[1]]
       /\ loaded' = [loaded EXCEPT ![p] = r[2]]
       /\ IF r[2]
          THEN Goto(p, "ls_found") /\ Linearize(p)
          ELSE Goto(p, LosAfterMiss) /\ abs' = abs
       /\ UNCHANGED <<mapVars, lockVars, op, key, arg, rangeVars, callVars,
                      settled, deleted, race, overlap>>
    \/ /\ pc[p] = "ls_found"
       /\ RUnlock(p, s)
       /\ Return(p)
       /\ UNCHANGED <<mapVars, callVars, abs>>
    \/ /\ pc[p] = "ls_runlock"
       /\ RUnlock(p, s)
       /\ Goto(p, "ls_lock")
       /\ UNCHANGED <<mapVars, op, key, arg, actual, loaded, rangeVars, callVars, histVars>>
    \/ /\ pc[p] = "ls_lock"
       /\ LockBegin(p, s)
       /\ Goto(p, "ls_wait")
       /\ UNCHANGED <<mapVars, op, key, arg, actual, loaded, rangeVars, callVars, histVars>>
    \/ /\ pc[p] = "ls_wait"
       /\ ReadersGone(s)
       /\ Goto(p, "ls_check")
       /\ UNCHANGED <<mapVars, lockVars, op, key, arg, actual, loaded, rangeVars, callVars, histVars>>
    \/ /\ pc[p] = "ls_check"
       /\ loaded' = [loaded EXCEPT ![p] = r2[2]]
       /\ actual' = [actual EXCEPT ![p] =
                        IF r2[2] THEN r2[1] ELSE InsertResult(impl, r2[1], arg[p])]
       /\ values' = [values EXCEPT ![s] = LosInsert(@, key[p], arg[p], r2[2])]
       /\ Linearize(p)
       /\ Goto(p, "ls_unlock")
       /\ UNCHANGED <<impl, requested, shardCount, lockVars, op, key, arg, rangeVars, callVars,
                      settled, deleted, race, overlap>>
    \/ /\ pc[p] = "ls_unlock"
       /\ Unlock(p, s)
       /\ Return(p)
       /\ UNCHANGED <<mapVars, callVars, abs>>

\* ------------------------------------------------------------- Delete
Delete(p) ==
    LET s == ShardOf(key[p]) IN
    \/ /\ pc[p] = "dl_lock"
       /\ LockBegin(p, s)
       /\ Goto(p, "dl_wait")
       /\ UNCHANGED <<mapVars, op, key, arg, actual, loaded, rangeVars, callVars, histVars>>
    \/ /\ pc[p] = "dl_wait"
       /\ ReadersGone(s)
       /\ Goto(p, "dl_delete")
       /\ UNCHANGED <<mapVars, lockVars, op, key, arg, actual, loaded, rangeVars, callVars, histVars>>
    \/ /\ pc[p] = "dl_delete"
       /\ values' = [values EXCEPT ![s] = MapDelete(@, key[p])]
       /\ Linearize(p)
       /\ Goto(p, "dl_unlock")
       /\ UNCHANGED <<impl, requested, shardCount, lockVars, op, key, arg, actual, loaded, rangeVars,
                      callVars, settled, deleted, race, overlap>>
    \/ /\ pc[p] = "dl_unlock"
       /\ Unlock(p, s)
       /\ Return(p)
       /\ UNCHANGED <<mapVars, callVars, abs>>

\* ------------------------------------------------------------- Range
\* a loop that leaves out the last shard
RangeDone_OffByOne(i, n) == i >= n - 1

\* end of `for _, shard := range sm.shards`
RangeDone(i, n) == i >= n

\* a loop that walks the shards from the last to the first
RangeShard_Reversed(i, n) == n - 1 - i

\* a loop that takes the first shard in every round
RangeShard_Repeat(i, n) == 0

\* the shard taken in round i of `for _, shard := range sm.shards`
RangeShard(i, n) == i

\* a Range that only leaves the current shard when f answers false
AfterVisit_Break(b) == IF b THEN "rg_iter" ELSE "rg_runlock"

\* where Range continues after f(key, value) answered b: on false it unlocks and returns
AfterVisit(b) == IF b THEN "rg_iter" ELSE "rg_stop"

\* a Range that iterates a shard without locking it
RangeRLock_None(p, s) == readers' = readers /\ w' = w

\* shard.mu.RLock() at the head of the loop body of Range
RangeRLock(p, s) == RLock(p, s)

\* The visitor f is any function: each invocation may answer true or false.
Range(p) ==
    LET s == RangeShard(ri[p], shardCount) IN
    \/ /\ pc[p] = "rg_next"
       /\ ~RangeDone(ri[p], shardCount)
       /\ RangeRLock(p, s)
       /\ Goto(p, "rg_iter")
       /\ snap' = [snap EXCEPT ![p] = values[s]]
       /\ UNCHANGED <<mapVars, op, key, arg, actual, loaded, ri, seen, visited, stopped,
                      callVars, histVars>>
    \/ /\ pc[p] = "rg_next"
       /\ RangeDone(ri[p], shardCount)
       /\ Return(p)
       /\ UNCHANGED <<mapVars, lockVars, callVars, abs>>
    \/ /\ pc[p] = "rg_iter"
       /\ LET todo == (DOMAIN values[s]) \ seen[p] IN
          IF todo = {}
          THEN /\ Goto(p, "rg_runlock")
               /\ UNCHANGED rangeVars
          ELSE \E k \in todo, b \in BOOLEAN :
               /\ visited' = [visited EXCEPT ![p] = Append(@, <<k, values[s][k]>>)]
               /\ seen' = [seen EXCEPT ![p] = @ \cup {k}]
               /\ stopped' = [stopped EXCEPT ![p] = ~b]
               /\ Goto(p, AfterVisit(b))
               /\ ri' = ri
               /\ snap' = snap
       /\ UNCHANGED <<mapVars, lockVars, op, key, arg, actual, loaded, callVars, histVars>>
    \/ /\ pc[p] = "rg_runlock"
       /\ RUnlock(p, s)
       /\ ri' = [ri EXCEPT ![p] = @ + 1]
       /\ seen' = [seen EXCEPT ![p] = {}]
       /\ snap' = [snap EXCEPT ![p] = EmptyMap]
       /\ Goto(p, "rg_next")
       /\ UNCHANGED <<mapVars, op, key, arg, actual, loaded, visited, stopped, callVars, histVars>>
    \/ /\ pc[p] = "rg_stop"
       /\ RUnlock(p, s)
       /\ Return(p)
       /\ UNCHANGED <<mapVars, callVars, abs>>

\* ------------------------------------------------------------- specification
\* one step of the call goroutine p is in
Step(p) ==
    \/ UUIDMap_Store(p) \/ StrMap_Store(p) \/ Load(p)
    \/ LoadOrStore(p) \/ Delete(p) \/ Range(p)

Next ==
    \E p \in Procs :
        \/ Call(p)
        \/ UUIDMap_Store(p)
        \/ StrMap_Store(p)
        \/ Load(p)
        \/ LoadOrStore(p)
        \/ Delete(p)
        \/ Range(p)

Spec == Init /\ [][Next]_vars

\* the calls of one goroutine, one after the other
SeqNext == Call(1) \/ Step(1)

\* a map made with any argument, used by one goroutine
CtorSpec == CtorInit /\ [][SeqNext]_vars

\* the visitor f of p's Range is called with the next entry of the shard and, before
\* it answers, calls a method of the map itself
VisitorCalls(p) ==
    LET s == RangeShard(ri[p], shardCount)
        f == VisitorFrame(p)
    IN /\ pc[p] = "rg_iter"
       /\ vcalls < MaxVisitorCalls
       /\ \E k \in (DOMAIN values[s]) \ seen[p] :
             /\ visited' = [visited EXCEPT ![p] = Append(@, <<k, values[s][k]>>)]
             /\ seen' = [seen EXCEPT ![p] = @ \cup {k}]
       /\ \E o \in {"Store", "Load", "LoadOrStore", "Delete"}, k0 \in Keys, v0 \in Values :
             LET v == IF o \in {"Store", "LoadOrStore"} THEN v0 ELSE Nil
             IN /\ pc' = [pc EXCEPT ![p] = "rg_visit", ![f] = FirstLabel(o)]
                /\ op' = [op EXCEPT ![f] = o]
                /\ key' = [key EXCEPT ![f] = k0]
                /\ arg' = [arg EXCEPT ![f] = v]
                /\ CallHistory(f, o, k0, v)
       /\ vcalls' = vcalls + 1
       /\ UNCHANGED <<mapVars, lockVars, actual, loaded, ri, stopped, snap, calls, abs>>

\* the call the visitor made has returned, and the visitor answers b
VisitorReturns(p) ==
    /\ pc[p] = "rg_visit"
    /\ ~Running(VisitorFrame(p))
    /\ \E b \in BOOLEAN :
          /\ stopped' = [stopped EXCEPT ![p] = ~b]
          /\ Goto(p, AfterVisit(b))
    /\ UNCHANGED <<mapVars, lockVars, op, key, arg, actual, loaded, ri, seen, visited, snap,
                   callVars, histVars>>

\* goroutines whose visitors may call the map
VisitNext ==
    \E p \in Procs :
        \/ Call(p)
        \/ Step(p)
        \/ VisitorCalls(p)
        \/ Step(VisitorFrame(p))
        \/ VisitorReturns(p)

VisitSpec == Init /\ [][VisitNext]_vars

TypeOK ==
    /\ impl \in Impls
    /\ requested \in (0 - MaxNonPositive)..MaxRequest
    /\ shardCount \in {NewShardCount(n) : n \in (0 - MaxNonPositive)..MaxRequest}
    /\ \A s \in Shards : DOMAIN values[s] \subseteq Keys
    /\ calls \in 0..MaxCalls
    /\ vcalls \in 0..MaxVisitorCalls

\* ------------------------------------------------------------- properties
Lookup(k) == MapGet(values[ShardOf(k)], k)

\* p's Load makes its lookup in this step
LoadReads(p) == pc[p] = "ld_read" /\ pc'[p] = "ld_runlock"

\* C1: once Store(k, v) has returned and until a later Store(k, _) or Delete(k)
\* starts, every lookup made by Load(k) yields (v, true).
C1_StoreThenLoad ==
    [][\A p \in Procs :
          (LoadReads(p) /\ settled[key[p]] # Nil)
              => (actual'[p] = settled[key[p]] /\ loaded'[p] = TRUE)]_vars

\* C2: a LoadOrStore(k, v1) that found k absent and is about to return reports
\* (v1, false), and the shard then holds (k, v1).
C2_LoadOrStoreAbsent ==
    \A p \in Procs :
        (pc[p] = "ls_unlock" /\ ~loaded[p])
            => (actual[p] = arg[p] /\ Lookup(key[p]) = <<arg[p], TRUE>>)

\* C3: a lookup of LoadOrStore(k, v2) that finds k present with v1 sets the results
\* to (v1, true) and changes no shard.
C3_LoadOrStorePresent ==
    [][\A p \in Procs :
          (/\ pc[p] \in {"ls_probe", "ls_check"}
           /\ pc'[p] # pc[p]
           /\ Lookup(key[p])[2])
              => (/\ actual'[p] = Lookup(key[p])[1]
                  /\ loaded'[p] = TRUE
                  /\ values' = values)]_vars

C3_Witness ==
    \E p \in Procs :
        /\ pc[p] \in {"ls_found", "ls_unlock"}
        /\ loaded[p]
        /\ actual[p] # arg[p]
        /\ Lookup(key[p]) = <<actual[p], TRUE>>

\* C4: among the LoadOrStore(k, _) calls that returned since k was absent with no
\* call on k running, and with no Store(k)/Delete(k) started since, exactly one
\* returned alreadyPresent = false.
C4_ExactlyOneInserts ==
    \A k \in Keys :
        race[k].active =>
            /\ race[k].nFalse <= 1
            /\ (race[k].nFalse + race[k].nTrue >= 1 => race[k].nFalse = 1)

\* a call that lost the race: its probe missed, its second lookup found the key
C4_Witness ==
    \E p \in Procs :
        /\ pc[p] = "ls_unlock"
        /\ loaded[p]
        /\ race[key[p]].active
        /\ race[key[p]].nFalse = 1

\* C5: in such a race every call returned the same value, the one passed by the
\* call that returned false, and it is the value stored for k.
C5_SameWinningValue ==
    \A k \in Keys :
        (race[k].active /\ race[k].nFalse + race[k].nTrue >= 1)
            => (/\ race[k].vals = {race[k].win}
                /\ Lookup(k) = <<race[k].win, TRUE>>)

\* C6: the shards always hold what the ordinary map holds after applying each call
\* atomically at the step where it takes effect, and Load and LoadOrStore report
\* what the ordinary map's get and get-or-insert report at that step.
C6_Linearizable ==
    [][/\ \A k \in Keys : MapGet(values'[ShardOf(k)], k) = <<abs'[k], abs'[k] # Nil>>
       /\ \A p \in Procs :
            (/\ \/ pc[p] \in {"ld_read", "ls_check"}
                \/ pc[p] = "ls_probe" /\ pc'[p] = "ls_found"
             /\ pc'[p] # pc[p])
                => <<actual'[p], loaded'[p]>> = SeqResult(abs, op[p], key[p], arg[p])]_vars

\* C7: once Delete(k) has returned and until a later Store(k) or LoadOrStore(k)
\* starts, every lookup made by Load(k) yields (zero, false); a Delete of an absent
\* key changes no shard.
C7_DeleteThenLoad ==
    [][/\ \A p \in Procs :
            (LoadReads(p) /\ deleted[key[p]])
                => (actual'[p] = Nil /\ loaded'[p] = FALSE)
       /\ \A p \in Procs :
            (pc[p] = "dl_delete" /\ pc'[p] = "dl_unlock" /\ ~Lookup(key[p])[2])
                => values' = values]_vars

C7_Witness ==
    \E p \in Procs :
        /\ pc[p] = "ld_runlock"
        /\ deleted[key[p]]
        /\ ~loaded[p]
        /\ \E k \in Keys : Lookup(k)[2]

\* C8: the lookup of Load(k) for a key that was never stored, or was deleted since
\* it was last stored, yields (zero, false).
C8_LoadAbsent ==
    [][\A p \in Procs :
          (LoadReads(p) /\ abs[key[p]] = Nil)
              => (actual'[p] = Nil /\ loaded'[p] = FALSE)]_vars

C8_Witness ==
    \E p \in Procs :
        /\ pc[p] = "ld_runlock"
        /\ abs[key[p]] = Nil
        /\ ~loaded[p]
        /\ \E k \in Keys : abs[k] # Nil

Entries == UNION {{<<k, values[s][k]>> : k \in DOMAIN values[s]} : s \in Shards}
NoDuplicates(q) == \A i, j \in 1..Len(q) : q[i] = q[j] => i = j

\* C9: a Range that ends with the visitor having answered true every time, and
\* with no mutating call running at any time of the scan, has passed every stored
\* (key, value) pair to the visitor exactly once and no other pair.
C9_RangeVisitsAll ==
    [][\A p \in Procs :
          (/\ pc[p] = "rg_next"
           /\ pc'[p] = "idle"
           /\ ~stopped[p]
           /\ overlap[p] = {})
              => (/\ NoDuplicates(visited[p])
                  /\ {visited[p][i] : i \in 1..Len(visited[p])} = Entries)]_vars

C9_Witness ==
    \E p \in Procs :
        /\ pc[p] = "rg_next"
        /\ ri[p] >= shardCount
        /\ ~stopped[p]
        /\ overlap[p] = {}
        /\ Len(visited[p]) >= 2
        /\ shardCount >= 2

\* C10: once the visitor has answered false, the only step Range takes is to return,
\* holding no lock afterwards: no further visit, no further lock.
C10_RangeStops ==
    [][\A p \in Procs :
          stopped[p] =>
              \/ /\ pc'[p] = pc[p]
                 /\ visited'[p] = visited[p]
                 /\ \A s \in Shards : (p \in readers'[s]) = (p \in readers[s])
              \/ /\ pc'[p] = "idle"
                 /\ \A s \in Shards : p \notin readers'[s] /\ w'[s] # p]_vars

\* the visitor answered false while entries were still unvisited
C10_Witness ==
    \E p \in Procs :
        /\ stopped[p]
        /\ \/ (DOMAIN values[RangeShard(ri[p], shardCount)]) \ seen[p] # {}
           \/ \E s \in Shards : s > ri[p] /\ DOMAIN values[s] # {}

\* the shard p's current call works on
CallShard(p) ==
    IF op[p] = "Range" THEN RangeShard(ri[p], shardCount) ELSE ShardOf(key[p])

\* the shard locks p holds or has begun to take
Held(p) == {s \in Shards : p \in readers[s] \/ w[s] = p}

\* C11: in one scan the visits follow the shard order: a visit of an entry of shard
\* i never comes after a visit of an entry of a shard j > i.
C11_RangeShardOrder ==
    \A p \in Procs :
        \A i, j \in 1..Len(visited[p]) :
            i < j => ShardOf(visited[p][i][1]) <= ShardOf(visited[p][j][1])

C11_Witness ==
    \E p \in Procs :
        /\ Len(visited[p]) >= 2
        /\ ShardOf(visited[p][1][1]) < ShardOf(visited[p][2][1])

C13_OneLockAtATime ==
    \A p \in Procs :
        /\ Cardinality(Held(p)) <= 1
        /\ op[p] \in {"Store", "Load", "LoadOrStore", "Delete"}
              => Held(p) \subseteq {ShardOf(key[p])}
        /\ op[p] = "Range" => \A s \in Shards : w[s] # p
        /\ ~Running(p) => Held(p) = {}

\* a scan that holds the lock of a shard after the first
C13_Witness ==
    \E p \in Procs :
        /\ op[p] = "Range"
        /\ ri[p] >= 1
        /\ Held(p) = {ri[p]}

WriteLabels == {"st_write", "si_check", "ls_check", "dl_delete"}
ReadLabels == {"si_probe", "ld_read", "ls_probe", "rg_iter"}

\* C14: a goroutine about to write or delete an entry holds the shard's lock
\* exclusively, one about to look up or iterate holds it at least shared, and no
\* other goroutine is about to access a shard that is being written.
C14_AccessUnderLock ==
    \A p \in Procs :
        /\ pc[p] \in WriteLabels =>
              /\ w[CallShard(p)] = p
              /\ readers[CallShard(p)] = {}
              /\ \A q \in Procs \ {p} :
                    pc[q] \in WriteLabels \cup ReadLabels => CallShard(q) # CallShard(p)
        /\ pc[p] \in ReadLabels => p \in readers[CallShard(p)]

\* a writer inside its critical section while another call waits for the same shard
C14_Witness ==
    \E p \in Procs :
        /\ pc[p] \in WriteLabels
        /\ \E q \in Procs \ {p} :
              /\ pc[q] \in {"ld_rlock", "ls_rlock", "si_rlock", "rg_next"}
              /\ CallShard(q) = CallShard(p)

\* the scheduler runs every goroutine that can take a step, and a mutex that is
\* free is handed to a goroutine waiting for it
FairSpec == Spec /\ \A p \in Procs : WF_vars(Step(p))

\* C15: some goroutine inside a call can always take a step, and every call that
\* has started returns.
C15_EveryCallReturns ==
    /\ []((\E p \in Procs : Running(p)) => \E p \in Procs : ENABLED Step(p))
    /\ \A p \in Procs : Running(p) ~> ~Running(p)

\* a call that has to wait: the lock of its shard is held by another goroutine
C15_Witness ==
    \E p \in Procs :
        /\ Running(p)
        /\ ~ENABLED Step(p)
        /\ \E q \in Procs \ {p} : CallShard(p) \in Held(q)

\* the keys routing is examined on
RouteKeys == 0..(MaxRouteKey - 1)

KeyedOps == {"Store", "Load", "LoadOrStore", "Delete"}

\* C16: for every key the index routing yields lies in [0, shardCount), and every
\* entry sits in the shard routing yields for its key, so the calls that stored
\* it and the calls that look it up got the same index.
C16_RouteInRange ==
    /\ \A k \in RouteKeys : getShard(impl, shardCount, k) \in 0..(shardCount - 1)
    /\ \A s \in Shards : \A k \in DOMAIN values[s] : s = getShard(impl, shardCount, k)

\* a map with three shards on which a Load has found a key stored before
C16_Witness ==
    \E p \in Procs :
        /\ shardCount = 3
        /\ pc[p] = "ld_runlock"
        /\ loaded[p]

\* C17: in a map with string or UUID keys a call works on, and an entry sits in,
\* the shard whose index is the hash of the key modulo shardCount.
C17_RouteIsHashMod ==
    impl \in {"StrMap", "StrMapB", "UUIDMap"} =>
        /\ \A p \in Procs :
              op[p] \in KeyedOps => Held(p) \subseteq {memHash(key[p]) % shardCount}
        /\ \A s \in Shards : \A k \in DOMAIN values[s] : s = memHash(k) % shardCount

\* C18: in a Uint64Map a call on key k works on shard k mod shardCount, an entry
\* with key k sits in that shard, and a Load of a key that was inserted finds it.
C18_Uint64Routing ==
    impl \in {"Uint64Map", "Uint64MapB"} =>
        /\ \A p \in Procs :
              op[p] \in KeyedOps => Held(p) \subseteq {key[p] % shardCount}
        /\ \A s \in Shards : \A k \in DOMAIN values[s] : s = k % shardCount
        /\ \A p \in Procs :
              (pc[p] = "ld_runlock" /\ abs[key[p]] # Nil) => loaded[p]

\* all keys were inserted one after the other into three shards, and a Load found
\* its key
C18_Witness ==
    \E p \in Procs :
        /\ impl \in {"Uint64Map", "Uint64MapB"}
        /\ shardCount = 3
        /\ \A k \in Keys : Lookup(k)[2]
        /\ pc[p] = "ld_runlock"
        /\ loaded[p]

\* C19: a constructor called with n > 0 makes n shards, called with n <= 0 it
\* makes 32; before the first call every shard is empty and its lock free, and a
\* Load that is the first call on the map yields (nil, false).
C19_Constructor ==
    /\ shardCount = IF requested > 0 THEN requested ELSE 32
    /\ DOMAIN values = 0..(shardCount - 1)
    /\ DOMAIN w = 0..(shardCount - 1)
    /\ DOMAIN readers = 0..(shardCount - 1)
    /\ calls = 0 =>
          \A s \in Shards : values[s] = EmptyMap /\ w[s] = NoProc /\ readers[s] = {}
    /\ \A p \in Procs :
          (pc[p] = "ld_runlock" /\ calls = 1) => (actual[p] = Nil /\ ~loaded[p])

\* the first call on a map made with a negative count is a Load that has looked up
C19_Witness ==
    \E p \in Procs :
        /\ requested < 0
        /\ shardCount = 32
        /\ pc[p] = "ld_runlock"
        /\ calls = 1

\* C20: the second lookup of LoadOrStore(k, v) is made with the shard locked
\* exclusively; when it finds k (inserted since the probe under the shared lock
\* missed it) the call takes the value present with true and writes nothing, when
\* it does not find k it inserts (k, v); no other step of LoadOrStore writes.
C20_DoubleChecked ==
    [][\A p \in Procs :
          LET k == key[p]
              s == ShardOf(k)
          IN /\ (pc[p] = "ls_check" /\ pc'[p] # pc[p]) =>
                   /\ w[s] = p
                   /\ readers[s] = {}
                   /\ IF Lookup(k)[2]
                      THEN /\ values' = values
                           /\ actual'[p] = Lookup(k)[1]
                           /\ loaded'[p] = TRUE
                      ELSE /\ values' = [values EXCEPT ![s] = MapPut(@, k, arg[p])]
                           /\ loaded'[p] = FALSE
             /\ (op[p] = "LoadOrStore" /\ pc[p] # "ls_check" /\ pc'[p] # pc[p]) =>
                   values' = values]_vars

\* the probe of p's LoadOrStore missed the key, another goroutine put it meanwhile
\* (not in a race of LoadOrStore calls alone: a Store or Delete of the key was
\* called), and p's second lookup found that value
C20_Witness ==
    \E p \in Procs :
        /\ pc[p] = "ls_unlock"
        /\ ~race[key[p]].active
        /\ loaded[p]
        /\ actual[p] # arg[p]
        /\ Lookup(key[p]) = <<actual[p], TRUE>>

\* the keys p's scan has passed to the visitor
VisitedKeys(p) == {visited[p][i][1] : i \in 1..Len(visited[p])}

\* p's Range holds the shared lock of the shard it iterates
InWindow(p) == pc[p] \in {"rg_iter", "rg_runlock", "rg_stop"}

\* C21: a scan visits a key only while it holds the lock of the key's shard, and
\* then only a key that was in the shard when the scan locked it; when the scan
\* leaves a shard without having been stopped, it has visited every key that was
\* in the shard when it locked it.  So a key inserted before the shard is locked
\* (and not deleted before) is visited, a key inserted after the shard was
\* unlocked is not.
C21_RangeWindow ==
    [][\A p \in Procs :
          LET s == CallShard(p) IN
          /\ visited'[p] # visited[p] /\ pc'[p] # "idle" =>
                /\ pc[p] = "rg_iter"
                /\ p \in readers[s]
                /\ \E k \in DOMAIN snap[p] :
                      /\ ShardOf(k) = s
                      /\ visited'[p] = Append(visited[p], <<k, snap[p][k]>>)
          /\ pc[p] = "rg_iter" /\ pc'[p] = "rg_runlock" /\ ~stopped'[p] =>
                DOMAIN snap[p] \subseteq VisitedKeys(p)]_vars

\* a scan, not stopped, that has visited a key stored during the scan before the
\* scan locked its shard, and has missed a key stored after it unlocked its shard
C21_Witness ==
    \E p \in Procs :
        /\ op[p] = "Range"
        /\ ~stopped[p]
        /\ overlap[p] \cap {"Store", "LoadOrStore"} # {}
        /\ Len(visited[p]) >= 1
        /\ \E k \in Keys :
              /\ ShardOf(k) < ri[p]
              /\ Lookup(k)[2]
              /\ k \notin VisitedKeys(p)

\* C22: while a scan holds the shared lock of a shard the map of the shard is the
\* one the scan found when it locked it, and when the scan has gone through the
\* shard with the visitor answering true, the pairs it visited from the shard are
\* the entries of that map, each with a value that was stored.
C22_ShardSnapshot ==
    \A p \in Procs :
        LET s == CallShard(p) IN
        /\ InWindow(p) => values[s] = snap[p]
        /\ pc[p] = "rg_runlock" /\ ~stopped[p] =>
              /\ {e \in {visited[p][i] : i \in 1..Len(visited[p])} : ShardOf(e[1]) = s}
                    = {<<k, snap[p][k]>> : k \in DOMAIN snap[p]}
              /\ \A k \in DOMAIN snap[p] : snap[p][k] \in Values

\* a scan is through a shard that holds an entry while a Store waits for that shard
C22_Witness ==
    \E p \in Procs :
        /\ pc[p] = "rg_runlock"
        /\ ~stopped[p]
        /\ DOMAIN snap[p] # {}
        /\ \E q \in Procs \ {p} :
              /\ op[q] \in Mutators
              /\ w[CallShard(p)] = q

\* every key is in at most one shard, the one routing selects for it
KeyPlacement ==
    \A k \in Keys :
        /\ Cardinality({s \in Shards : k \in DOMAIN values[s]}) <= 1
        /\ \A s \in Shards : k \in DOMAIN values[s] => s = ShardOf(k)

\* C23: in every state each key occurs in at most one shard's map, and only in
\* the shard routing selects for it; no step changes the number of shards or the
\* array of shards.
C23_OneShardPerKey ==
    [][/\ KeyPlacement
       /\ KeyPlacement'
       /\ shardCount' = shardCount
       /\ impl' = impl
       /\ DOMAIN values' = DOMAIN values
       /\ DOMAIN values = 0..(shardCount - 1)]_vars

\* all keys are stored, not all in the same shard, and every call that can be made
\* has been made
C23_Witness ==
    /\ \A k \in Keys : Lookup(k)[2]
    /\ \E k1, k2 \in Keys : ShardOf(k1) # ShardOf(k2)
    /\ calls = MaxCalls

\* no goroutine is inside a call
Quiescent == \A p \in Procs : ~Running(p)

AllLocksFree == \A s \in Shards : w[s] = NoProc /\ readers[s] = {}

\* C24: a call that returns, on whichever path, holds no lock afterwards, neither
\* shared nor exclusive; when the last call in progress has returned every
\* shard's lock is free.
C24_LocksReleased ==
    [][\A p \in Procs :
          Running(p) /\ ~Running(p)' =>
              /\ \A s \in Shards : p \notin readers'[s] /\ w'[s] # p
              /\ Quiescent' => AllLocksFree']_vars

\* nothing runs after all calls were made, among them a LoadOrStore that inserted
\* and a LoadOrStore that found the key
C24_Witness ==
    /\ Quiescent
    /\ AllLocksFree
    /\ calls = MaxCalls
    /\ \E k \in Keys :
          /\ race[k].active
          /\ race[k].nFalse = 1
          /\ race[k].nTrue >= 1

\* the entry of key k in shard s, <<nil, false>> when there is none
EntryAt(s, k) == MapGet(values[s], k)

\* C25: a step changes the entry of key k in shard s only when it is a step of a
\* Store, LoadOrStore or Delete on k and s is the shard of k; the entries of all
\* other keys, in that shard and in the others, stay as they are, and no step of
\* Load or Range changes an entry.
C25_Frame ==
    [][\A s \in Shards, k \in Keys :
          EntryAt(s, k)' # EntryAt(s, k) =>
              /\ s = ShardOf(k)
              /\ \E p \in Procs :
                    /\ pc'[p] # pc[p]
                    /\ op[p] \in Mutators
                    /\ key[p] = k]_vars

\* a call has just written or deleted its key in a shard that holds another key
C25_Witness ==
    \E p \in Procs :
        /\ pc[p] \in {"st_unlock", "si_unlock", "ls_unlock", "dl_unlock"}
        /\ \E k \in Keys \ {key[p]} :
              /\ ShardOf(k) = ShardOf(key[p])
              /\ Lookup(k)[2]

\* frame a cannot go on before frame b has released a lock or, for a scan inside
\* its visitor, before the visitor's call b has returned
WaitsFor(a, b) ==
    /\ a # b
    /\ \/ /\ pc[a] \in {"ld_rlock", "ls_rlock", "si_rlock", "st_lock", "si_lock", "ls_lock", "dl_lock"}
          /\ w[CallShard(a)] = b
       \/ /\ pc[a] = "rg_next"
          /\ ~RangeDone(ri[a], shardCount)
          /\ w[CallShard(a)] = b
       \/ /\ pc[a] \in {"st_wait", "si_wait", "ls_wait", "dl_wait"}
          /\ b \in readers[CallShard(a)]
       \/ /\ pc[a] = "rg_visit"
          /\ a \in Procs
          /\ b = VisitorFrame(a)
          /\ Running(b)

RECURSIVE WaitChain(_, _)
\* the frames reached from those of S along at most n more waits
WaitChain(S, n) ==
    IF n = 0 THEN S
    ELSE WaitChain(S \cup {c \in Frames : \E b \in S : WaitsFor(b, c)}, n - 1)

\* the call in frame f waits, directly or through other calls, for a lock that
\* goroutine p holds
BlockedBy(f, p) ==
    p \in WaitChain({b \in Frames : WaitsFor(f, b)}, 2 * NumProcs)

\* the labels of a mutating call after it got its lock or found its key
PastLock ==
    {"st_write", "st_unlock", "si_found", "si_check", "si_unlock",
     "ls_found", "ls_check", "ls_unlock", "dl_delete", "dl_unlock"}

\* the visitor of p's Range has called Store, Delete, or LoadOrStore of an absent
\* key, for a key of the shard p is visiting
MutatesVisitedShard(p) ==
    LET f == VisitorFrame(p) IN
    /\ pc[p] = "rg_visit"
    /\ Running(f)
    /\ ShardOf(key[f]) = CallShard(p)
    /\ \/ op[f] \in {"Store", "Delete"}
       \/ op[f] = "LoadOrStore" /\ ~Lookup(key[f])[2]

\* the visitor of p's Range has called Load, or another method for a key of a shard
\* p is not visiting
ReadsOrOtherShard(p) ==
    LET f == VisitorFrame(p) IN
    /\ pc[p] = "rg_visit"
    /\ Running(f)
    /\ op[f] = "Load" \/ ShardOf(key[f]) # CallShard(p)

\* C26: a visitor's Store, Delete, or LoadOrStore of an absent key, on the shard
\* being visited never gets the exclusive lock and so never returns; a visitor's
\* Load, and its calls on another shard, never wait for the lock the scan holds.
C26_VisitorCalls ==
    \A p \in Procs :
        /\ MutatesVisitedShard(p) => pc[VisitorFrame(p)] \notin PastLock
        /\ ReadsOrOtherShard(p) => ~BlockedBy(VisitorFrame(p), p)

====
